---- MODULE Spec2Model ----
(***************************************************************************)
(* smallsh (src/main.c): the read-eval loop, the SIGTSTP handler, the job  *)
(* reaper, the command parser and the command executor, as a state machine.*)
(*                                                                         *)
(* Strings are sequences of one-character strings; a C pointer to a string *)
(* is the string itself, NULL is the empty sequence (no token and no file  *)
(* name is ever empty).  Array indices are 0-based as in the source.       *)
(*                                                                         *)
(* SIGTSTP is delivered to the interpreter between any two steps; the      *)
(* steps are cut where the code reads foregroundMode, blocks, or hands     *)
(* control to another process.  A printf with the fflush that follows it   *)
(* is one step; the printf of the status built-in has no fflush and stays  *)
(* in the stdio buffer.  A forked child runs lines 330-382 in one step of  *)
(* its own and, once it has become the program, ends in another.  fgets    *)
(* always delivers a line.  variableExpansion runs one pass of its loop    *)
(* per step.  SIGINT is delivered to one process at a time.                *)
(*                                                                         *)
(* Spec is the whole program; SpecParse, SpecExpand and SpecChild start    *)
(* the parser, the expander and a forked child on every input of a bounded *)
(* set.                                                                    *)
(***************************************************************************)
EXTENDS Integers, Sequences, FiniteSets, TLC

\* ------------------------------------------------------------------ bounds
MaxTurns == 3        \* lines read by the loop in one run
MaxChildren == 2     \* successful fork() calls in one run
MaxSig == 2          \* SIGTSTP deliveries in one run
MaxLineLen == 5      \* characters of a line handed to the parser alone
MaxWords == 4        \* words of a longer line handed to the parser alone
MaxExpandLen == 6    \* characters of a short line handed to variableExpansion

\* line 17: the size of main's input[] and, as the literal of line 175, of
\* variableExpansion's newString[]
USERINPUT == 2048

\* ------------------------------------------------------------------ values
NULL == <<>>
\* what a never-written malloc'd pointer field may hold besides NULL
Garbage == <<"uninit">>
DevNull == <<"/", "d", "e", "v", "/", "n", "u", "l", "l">>
SIGINT == 2
SIGKILL == 9
SIGSEGV == 11

s_exit == <<"e", "x", "i", "t">>
s_cd == <<"c", "d">>
s_status == <<"s", "t", "a", "t", "u", "s">>
s_ls == <<"l", "s">>

\* ------------------------------------------------------- the environment
Home == <<"h">>                      \* getenv("HOME")
Dirs == {<<"h">>, <<"d">>}           \* the directories that exist
StartDir == <<"d">>
StartFiles == {<<"f">>}              \* the regular files that exist at start
Programs == {s_ls}                   \* what execvp can find
ExitCodes == {3}                     \* exit codes a program may end with
KillSignals == {SIGKILL}             \* signals a program may be killed by

VARIABLES
  pc,              \* position of the interpreter process
  foregroundMode,  \* the global of line 26
  input,           \* main's line buffer
  currCommand,     \* the struct command of the current line
  fStatus,         \* main's fStatus
  rStatus,         \* runCommand's parameter fStatus
  spawnPid,        \* runCommand's spawnPid (0 outside an external command)
  child,           \* the processes forked so far, by pid
  cwd,             \* the interpreter's working directory
  files,           \* the regular files that exist
  out,             \* bytes written to file descriptor 1, as messages
  buf,             \* the interpreter's stdio buffer of stdout (fully buffered)
  err,             \* bytes written to file descriptor 2, as messages
  sigCount,        \* SIGTSTP deliveries so far
  turn,            \* lines read so far
  pid,             \* main's pid, the getpid() of line 39
  pString,         \* variableExpansion: what is left to scan, from pString on
  newString        \* variableExpansion: the bytes written from newString[0] on

vars == <<pc, foregroundMode, input, currCommand, fStatus, rStatus, spawnPid, child, cwd, files, out, buf, err,
          sigCount, turn, pid, pString, newString>>

\* ------------------------------------------------------------ wait status
W_EXITCODE(code) == (code % 256) * 256
W_TERMSIG(sig) == sig % 128
WIFEXITED(w) == w % 128 = 0
WEXITSTATUS(w) == (w \div 256) % 256
WIFSIGNALED(w) == ((w % 128) + 1) \div 2 > 0
WTERMSIG(w) == w % 128

\* ---------------------------------------------------------------- stdout
Msg(kind, n, s) == [kind |-> kind, n |-> n, s |-> s]

\* printf then fflush(stdout), as at lines 64-65: the buffer and the message
\* reach file descriptor 1
PrintFlush(m) == out \o buf \o <<m>>

\* ------------------------------------------------------------ the parser
EmptyCommand(uIn, uOut) ==
  [arguments |-> << >>, inputFile |-> uIn, outputFile |-> uOut,
   backgroundRun |-> FALSE]

\* arguments[i]; an element never assigned is NULL (the reset loop of 232)
Arg(cmd, i) == IF i \in DOMAIN cmd.arguments THEN cmd.arguments[i] ELSE NULL

RECURSIVE strtok_r(_, _)
\* the tokens that the successive strtok_r(.., " ", ..) calls return for s;
\* cur is the token being scanned
strtok_r(s, cur) ==
  IF s = <<>> THEN (IF cur = <<>> THEN <<>> ELSE <<cur>>)
  ELSE IF Head(s) = " "
       THEN (IF cur = <<>> THEN <<>> ELSE <<cur>>) \o strtok_r(Tail(s), <<>>)
       ELSE strtok_r(Tail(s), Append(cur, Head(s)))

Tokens(s) == strtok_r(s, <<>>)

\* lines 224-229: the line ends in '&'
EndsInAmp(command) == command[Len(command)] = "&"

StripAmp(command) ==
  IF EndsInAmp(command) THEN SubSeq(command, 1, Len(command) - 1) ELSE command

RECURSIVE TokenLoop(_, _, _, _)
\* the for loop of lines 241-264: toks[k] is token, i the loop counter;
\* fault: a NULL token was handed to strlen
TokenLoop(toks, k, i, cmd) ==
  IF k > Len(toks) THEN [fault |-> FALSE, cmd |-> cmd]
  ELSE IF toks[k] = <<"<">>
       THEN IF k + 1 > Len(toks) THEN [fault |-> TRUE, cmd |-> cmd]
            ELSE TokenLoop(toks, k + 2, i + 1,
                           [cmd EXCEPT !.inputFile = toks[k + 1]])
  ELSE IF toks[k] = <<">">>
       THEN IF k + 1 > Len(toks) THEN [fault |-> TRUE, cmd |-> cmd]
            ELSE TokenLoop(toks, k + 2, i + 1,
                           [cmd EXCEPT !.outputFile = toks[k + 1]])
  ELSE TokenLoop(toks, k + 1, i + 1,
                 [cmd EXCEPT !.arguments = (i :> toks[k]) @@ @])

\* lines 221-264 on the line `command`, the malloc'd block holding uIn and
\* uOut where the code never writes
ParseLine(command, uIn, uOut) ==
  LET toks == Tokens(StripAmp(command))
      cmd0 == [EmptyCommand(uIn, uOut) EXCEPT !.backgroundRun = EndsInAmp(command)]
  IN IF toks = <<>> THEN [fault |-> TRUE, cmd |-> cmd0]
     ELSE TokenLoop(toks, 2, 1, [cmd0 EXCEPT !.arguments = (0 :> toks[1])])

RECURSIVE ArgvFrom(_, _)
\* what execvp reads from arguments: the elements up to the first NULL
ArgvFrom(cmd, i) ==
  IF Arg(cmd, i) = NULL THEN <<>> ELSE <<Arg(cmd, i)>> \o ArgvFrom(cmd, i + 1)

Argv(cmd) == ArgvFrom(cmd, 0)

\* processCommand, lines 221-264.  input keeps the text of the line: the NULs
\* that line 226 and strtok_r write into the buffer are not tracked, nothing
\* reads the buffer again before fgets overwrites it
Parse ==
  /\ pc = "parse"
  /\ \E u \in {NULL, Garbage} :
       \* malloc hands out a zero-filled block or one filled with junk
       LET r == ParseLine(input, u, u)
       IN /\ currCommand' = r.cmd
          /\ pc' = IF r.fault THEN "fault" ELSE "synth_in"
  /\ UNCHANGED <<pid, pString, newString, foregroundMode, input, fStatus, rStatus, spawnPid,
                 child, cwd, files, out, buf, err, sigCount,
                 turn>>

\* processCommand, lines 268-272
SynthIn ==
  /\ pc = "synth_in"
  /\ IF currCommand.backgroundRun /\ ~foregroundMode
     THEN /\ currCommand' =
               IF currCommand.inputFile = NULL
               THEN [currCommand EXCEPT !.inputFile = DevNull]
               ELSE currCommand
          /\ pc' = "synth_out"
     ELSE /\ pc' = "dispatch"
          /\ UNCHANGED currCommand
  /\ UNCHANGED <<pid, pString, newString, foregroundMode, input, fStatus, rStatus, spawnPid, child, cwd, files, out, buf, err,
                 sigCount, turn>>

\* processCommand, lines 273-278
SynthOut ==
  /\ pc = "synth_out"
  /\ currCommand' =
       IF currCommand.outputFile = NULL /\ ~foregroundMode
       THEN [currCommand EXCEPT !.outputFile = DevNull]
       ELSE currCommand
  /\ pc' = "dispatch"
  /\ UNCHANGED <<pid, pString, newString, foregroundMode, input, fStatus, rStatus, spawnPid, child, cwd, files, out, buf, err,
                 sigCount, turn>>

\* ------------------------------------------------------ the signal handler
Terminated == pc \in {"exit_295", "exit_325", "fault"}

\* AfterHandler without SA_RESTART: the waitpid of line 387 returns -1
\* (EINTR) when the handler returns
AfterHandler_noRestart(at) == IF at = "p_wait" THEN "p_check2" ELSE at

\* line 55, SA_RESTART: where the interpreter goes on when the handler
\* returns into the position at; an interrupted call is started again
AfterHandler(at) == at

\* handle_SIGTSTP without the assignment of line 120: the mode is never left
handle_SIGTSTP_stuck ==
  /\ ~Terminated
  /\ sigCount < MaxSig
  /\ sigCount' = sigCount + 1
  /\ foregroundMode' = TRUE
  /\ out' = out
            \o <<IF foregroundMode THEN Msg("exit-fg", 30, NULL)
                                   ELSE Msg("enter-fg", 50, NULL)>>
            \o buf
            \o <<Msg("prompt", 3, NULL)>>
  /\ buf' = <<>>
  /\ UNCHANGED <<pid, pString, newString, pc, input, currCommand, fStatus, rStatus, spawnPid,
                 child, cwd, files, err, turn>>

\* handle_SIGTSTP, lines 106-126; every signal is blocked while it runs
handle_SIGTSTP ==
  /\ ~Terminated
  /\ sigCount < MaxSig
  /\ sigCount' = sigCount + 1
  /\ foregroundMode' = ~foregroundMode
  /\ out' = out
            \o <<IF foregroundMode THEN Msg("exit-fg", 30, NULL)
                                   ELSE Msg("enter-fg", 50, NULL)>>
            \o buf
            \o <<Msg("prompt", 3, NULL)>>
  /\ buf' = <<>>
  /\ pc' = AfterHandler(pc)
  /\ UNCHANGED <<pid, pString, newString, input, currCommand, fStatus, rStatus, spawnPid, child, cwd, files, err, turn>>

\* ------------------------------------------------------- the job reaper
Zombies == {p \in DOMAIN child : child[p].state = "zombie"}

\* the status waitpid stores for a terminated child
WaitStatus(c) == IF c.how = "exit" THEN W_EXITCODE(c.n) ELSE W_TERMSIG(c.n)

\* the message of lines 146-153 (and of 309-314) for the wait status w
StatusMsg(w) ==
  IF WIFEXITED(w) THEN <<Msg("exit-value", WEXITSTATUS(w), NULL)>>
  ELSE IF WIFSIGNALED(w) THEN <<Msg("term-signal", WTERMSIG(w), NULL)>>
  ELSE <<>>

\* ReapWait with the while of line 140 turned into an if: one child is
\* reported and the prompt follows
ReapWait_once ==
  /\ pc = "reap_wait"
  /\ IF Zombies # {}
     THEN \E p \in Zombies :
            /\ child' = [child EXCEPT ![p].state = "reaped",
                                      ![p].reapedBy = "reaper"]
            /\ out' = out \o buf \o <<Msg("bg-done", p, NULL)>>
                          \o StatusMsg(WaitStatus(child[p]))
            /\ buf' = <<>>
            /\ pc' = "prompt"
     ELSE /\ pc' = "prompt"
          /\ UNCHANGED <<child, out, buf>>
  /\ UNCHANGED <<pid, pString, newString, foregroundMode, input, currCommand, fStatus, rStatus,
                 spawnPid, cwd, files, err, sigCount, turn>>

\* checkBackgroundProcesses, lines 139-155: one waitpid(-1, &bStatus, WNOHANG)
\* and, when it returns a child, the report of lines 142-153
ReapWait ==
  /\ pc = "reap_wait"
  /\ IF Zombies # {}
     THEN \E p \in Zombies :
            /\ child' = [child EXCEPT ![p].state = "reaped",
                                      ![p].reapedBy = "reaper"]
            /\ out' = out \o buf \o <<Msg("bg-done", p, NULL)>>
                          \o StatusMsg(WaitStatus(child[p]))
            /\ buf' = <<>>
            /\ pc' = "reap_wait"
     ELSE /\ pc' = "prompt"
          /\ UNCHANGED <<child, out, buf>>
  /\ UNCHANGED <<pid, pString, newString, foregroundMode, input, currCommand, fStatus, rStatus,
                 spawnPid, cwd, files, err, sigCount, turn>>

\* ------------------------------------------------------------- the loop
\* lines 64-65
Prompt ==
  /\ pc = "prompt"
  /\ out' = PrintFlush(Msg("prompt", 2, NULL))
  /\ buf' = <<>>
  /\ pc' = "read"
  /\ UNCHANGED <<pid, pString, newString, foregroundMode, input, currCommand, fStatus, rStatus,
                 spawnPid, child, cwd, files, err,
                 sigCount, turn>>

\* the lines the terminal may supply, without their newline
Lines ==
  { <<>>,
    <<"#">>,
    s_exit,
    s_cd,
    s_cd \o <<" ", "x">>,
    s_status,
    s_ls,
    s_ls \o <<" ", "&">>,
    <<"$", "$">>,
    s_ls \o <<" ", "<", " ", "x">>,
    s_ls \o <<" ", ">", " ", "d">>,
    s_ls \o <<" ", "<">> }

RECURSIVE strcspn(_, _)
\* the length of the prefix of s that has no character of reject
strcspn(s, reject) ==
  IF s = <<>> \/ Head(s) \in reject THEN 0 ELSE 1 + strcspn(Tail(s), reject)

\* lines 66-75: fgets, the newline cut off, blank lines and comments skipped
ReadLine ==
  /\ pc = "read"
  /\ turn <= MaxTurns
  /\ \E l \in Lines :
       LET got == l \o <<"\n">>
           line == SubSeq(got, 1, strcspn(got, {"\n"}))
       IN /\ input' = line
          /\ IF line = <<>> \/ line[1] = "#"
             THEN pc' = "reap_wait"
             ELSE pc' = "expand"
  /\ turn' = turn + 1
  /\ UNCHANGED <<pid, pString, newString, foregroundMode, currCommand, fStatus, rStatus, spawnPid, child, cwd, files, out, buf, err, sigCount>>

\* ------------------------------------------------------ variable expansion
ShellPid == 42       \* getpid() of the interpreter

RECURSIVE Decimal(_)
\* snprintf("%d") of a natural number
Decimal(n) ==
  LET d == <<"0", "1", "2", "3", "4", "5", "6", "7", "8", "9">>[(n % 10) + 1]
  IN IF n < 10 THEN <<d>> ELSE Append(Decimal(n \div 10), d)

\* strstr(s, v) as an index into s, 0 for NULL
strstr(s, v) ==
  LET at == {i \in 1..(Len(s) - Len(v) + 1) : SubSeq(s, i, i + Len(v) - 1) = v}
  IN IF at = {} THEN 0 ELSE CHOOSE i \in at : \A j \in at : i <= j

\* line 77, variableExpansion lines 170-183: pString = string,
\* pNewString = newString
Expand ==
  /\ pc = "expand"
  /\ pString' = input
  /\ newString' = <<>>
  /\ pc' = "expand_loop"
  /\ UNCHANGED <<pid, foregroundMode, input, currCommand, fStatus, rStatus, spawnPid, child, cwd, files, out, buf, err, sigCount, turn>>

\* one pass of the loop of lines 183-203 and, after the break, the copy back
\* of line 206.  Nothing compares what is written with the USERINPUT bytes
\* of newString and of main's input: writing past their end kills the
\* process (return address, stack guard) or goes unnoticed
variableExpansion ==
  /\ pc = "expand_loop"
  /\ LET variable == <<"$", "$">>
         pVariable == strstr(pString, variable)
         written == IF pVariable = 0
                    THEN newString \o pString
                    ELSE newString \o SubSeq(pString, 1, pVariable - 1)
                                   \o Decimal(pid)
         bytes == IF pVariable = 0 THEN Len(written) + 1 ELSE Len(written)
         goesOn == IF pVariable = 0
                   THEN /\ input' = written
                        /\ pString' = <<>>
                        /\ newString' = <<>>
                        /\ pc' = "parse"
                   ELSE /\ pString' = SubSeq(pString, pVariable + Len(variable),
                                             Len(pString))
                        /\ newString' = written
                        /\ UNCHANGED <<input, pc>>
     IN IF bytes <= USERINPUT
        THEN goesOn
        ELSE \/ goesOn
             \/ /\ pc' = "fault"
                /\ newString' = written
                /\ UNCHANGED <<input, pString>>
  /\ UNCHANGED <<pid, foregroundMode, currCommand, fStatus, rStatus, spawnPid, child, cwd, files, out, buf, err, sigCount, turn>>

\* ----------------------------------------------------------- the executor
IsBuiltin(cmd) == Arg(cmd, 0) \in {s_exit, s_cd, s_status}

\* lines 293-296: exit(0), which flushes stdio
BuiltinExit ==
  /\ pc = "dispatch"
  /\ Arg(currCommand, 0) = s_exit
  /\ rStatus' = fStatus
  /\ out' = out \o buf
  /\ buf' = <<>>
  /\ pc' = "exit_295"
  /\ UNCHANGED <<pid, pString, newString, foregroundMode, input, currCommand, fStatus, spawnPid, child, cwd, files, err, sigCount,
                 turn>>

\* chdir(path) from the directory dir: the directory afterwards
chdir(dir, path) == IF path \in Dirs THEN path ELSE dir

\* BuiltinCd returning the outcome of chdir as the status
BuiltinCd_status ==
  /\ pc = "dispatch"
  /\ Arg(currCommand, 0) = s_cd
  /\ LET path == IF Arg(currCommand, 1) = NULL THEN Home
                 ELSE Arg(currCommand, 1)
     IN /\ cwd' = chdir(cwd, path)
        /\ rStatus' = IF path \in Dirs THEN W_EXITCODE(0) ELSE W_EXITCODE(1)
  /\ pc' = "ret"
  /\ UNCHANGED <<pid, pString, newString, foregroundMode, input, currCommand, fStatus, spawnPid,
                 child, files, out, buf, err, sigCount, turn>>

\* lines 299-305
BuiltinCd ==
  /\ pc = "dispatch"
  /\ Arg(currCommand, 0) = s_cd
  /\ rStatus' = fStatus
  /\ cwd' = IF Arg(currCommand, 1) = NULL
            THEN chdir(cwd, Home)
            ELSE chdir(cwd, Arg(currCommand, 1))
  /\ pc' = "ret"
  /\ UNCHANGED <<pid, pString, newString, foregroundMode, input, currCommand, fStatus, spawnPid, child, files, out, buf, err,
                 sigCount, turn>>

\* lines 308-315
BuiltinStatus ==
  /\ pc = "dispatch"
  /\ Arg(currCommand, 0) = s_status
  /\ rStatus' = fStatus
  /\ buf' = buf \o StatusMsg(fStatus)
  /\ pc' = "ret"
  /\ UNCHANGED <<pid, pString, newString, foregroundMode, input, currCommand, fStatus, spawnPid, child, cwd, files, out, err, sigCount, turn>>

FreePids == {p \in DOMAIN child : child[p].state = "none"}

\* Fork in an executor that decides the redirection of a '&' command when it
\* runs it: with the mode on, a /dev/null is taken off again
Fork_resolving ==
  /\ pc = "dispatch"
  /\ ~IsBuiltin(currCommand)
  /\ FreePids # {}
  /\ LET p == CHOOSE q \in FreePids : \A r \in FreePids : q <= r
         off(file) == IF foregroundMode /\ file = DevNull THEN NULL ELSE file
     IN /\ child' = [child EXCEPT ![p] =
                       [state |-> "forked",
                        cmd |-> [currCommand EXCEPT
                                   !.inputFile = off(@), !.outputFile = off(@)],
                        mode |-> foregroundMode, sigint |-> "ignore",
                        how |-> "none", n |-> 0, reapedBy |-> "none"]]
        /\ spawnPid' = p
  /\ rStatus' = fStatus
  /\ pc' = "p_check"
  /\ UNCHANGED <<pid, pString, newString, foregroundMode, input, currCommand, fStatus,
                 cwd, files, out, buf, err, sigCount, turn>>

\* line 320, fork() succeeding: the child is a copy of the interpreter
Fork ==
  /\ pc = "dispatch"
  /\ ~IsBuiltin(currCommand)
  /\ FreePids # {}
  /\ LET p == CHOOSE q \in FreePids : \A r \in FreePids : q <= r
     IN /\ child' = [child EXCEPT ![p] =
                       [state |-> "forked", cmd |-> currCommand,
                        mode |-> foregroundMode, sigint |-> "ignore",
                        how |-> "none", n |-> 0, reapedBy |-> "none"]]
        /\ spawnPid' = p
  /\ rStatus' = fStatus
  /\ pc' = "p_check"
  /\ UNCHANGED <<pid, pString, newString, foregroundMode, input, currCommand, fStatus,
                 cwd, files, out, buf, err, sigCount, turn>>

\* lines 320-325, fork() failing: perror and exit(1)
ForkFail ==
  /\ pc = "dispatch"
  /\ ~IsBuiltin(currCommand)
  /\ rStatus' = fStatus
  /\ spawnPid' = -1
  /\ err' = Append(err, Msg("fork()", 0, NULL))
  /\ out' = out \o buf
  /\ buf' = <<>>
  /\ pc' = "exit_325"
  /\ UNCHANGED <<pid, pString, newString, foregroundMode, input, currCommand, fStatus,
                 child, cwd, files, sigCount, turn>>

\* line 386: the parent decides whether to wait
ParentCheckWait ==
  /\ pc = "p_check"
  /\ pc' = IF ~currCommand.backgroundRun \/ foregroundMode
           THEN "p_wait" ELSE "p_check2"
  /\ UNCHANGED <<pid, pString, newString, foregroundMode, input, currCommand, fStatus, rStatus,
                 spawnPid, child, cwd, files, out, buf, err, sigCount, turn>>

\* ParentWait with waitpid(spawnPid, NULL, 0): the status is not stored
ParentWait_noStatus ==
  /\ pc = "p_wait"
  /\ child[spawnPid].state = "zombie"
  /\ child' = [child EXCEPT ![spawnPid].state = "reaped",
                            ![spawnPid].reapedBy = "executor"]
  /\ IF WIFSIGNALED(rStatus)
     THEN /\ out' = PrintFlush(Msg("fg-term-signal", WTERMSIG(rStatus), NULL))
          /\ buf' = <<>>
     ELSE UNCHANGED <<out, buf>>
  /\ pc' = "p_check2"
  /\ UNCHANGED <<pid, pString, newString, foregroundMode, input, currCommand, fStatus, rStatus,
                 spawnPid, cwd, files, err, sigCount, turn>>

\* lines 387-392: waitpid(spawnPid, &fStatus, 0) returns once that child
\* has ended; a child killed by a signal is reported
ParentWait ==
  /\ pc = "p_wait"
  /\ child[spawnPid].state = "zombie"
  /\ rStatus' = WaitStatus(child[spawnPid])
  /\ child' = [child EXCEPT ![spawnPid].state = "reaped",
                            ![spawnPid].reapedBy = "executor"]
  /\ IF WIFSIGNALED(WaitStatus(child[spawnPid]))
     THEN /\ out' = PrintFlush(Msg("fg-term-signal",
                                   WTERMSIG(WaitStatus(child[spawnPid])), NULL))
          /\ buf' = <<>>
     ELSE UNCHANGED <<out, buf>>
  /\ pc' = "p_check2"
  /\ UNCHANGED <<pid, pString, newString, foregroundMode, input, currCommand, fStatus, spawnPid, cwd, files, err, sigCount, turn>>

\* lines 396-399: the parent decides whether to report the pid
ParentCheckBackground ==
  /\ pc = "p_check2"
  /\ IF currCommand.backgroundRun /\ ~foregroundMode
     THEN /\ out' = PrintFlush(Msg("bg-pid", spawnPid, NULL))
          /\ buf' = <<>>
     ELSE UNCHANGED <<out, buf>>
  /\ pc' = "ret"
  /\ UNCHANGED <<pid, pString, newString, foregroundMode, input, currCommand, fStatus, rStatus,
                 spawnPid, child, cwd, files, err,
                 sigCount, turn>>

\* line 403 and main's lines 83-94: the status is stored, the command is
\* freed (free of a pointer malloc never returned kills the process) and the
\* next loop turn begins
Return ==
  /\ pc = "ret"
  /\ fStatus' = rStatus
  /\ IF Garbage \in {currCommand.inputFile, currCommand.outputFile}
     THEN /\ pc' = "fault"
          /\ UNCHANGED <<currCommand, spawnPid>>
     ELSE /\ pc' = "reap_wait"
          /\ currCommand' = EmptyCommand(NULL, NULL)
          /\ spawnPid' = 0
  /\ UNCHANGED <<pid, pString, newString, foregroundMode, input, rStatus, child, cwd,
                 files, out, buf, err, sigCount, turn>>

\* ------------------------------------------------------------ the children
CanOpenRead(path, fs) == path \in fs \cup {DevNull}
CanOpenWrite(path) == path \notin Dirs \cup {Garbage}

\* ChildResult with the blocks of lines 342-357 and 360-375 exchanged: the
\* output file is opened first
ChildResult_outputFirst(cmd, fs) ==
  IF cmd.outputFile # NULL /\ ~CanOpenWrite(cmd.outputFile)
  THEN [state |-> "zombie", how |-> "exit", n |-> 1,
        msg |-> <<Msg("no-output", 0, cmd.outputFile)>>, files |-> fs]
  ELSE LET fs2 == IF cmd.outputFile \in {NULL, DevNull}
                  THEN fs ELSE fs \cup {cmd.outputFile}
       IN IF cmd.inputFile # NULL /\ ~CanOpenRead(cmd.inputFile, fs)
          THEN [state |-> "zombie", how |-> "exit", n |-> 1,
                msg |-> <<>>, files |-> fs2]
          ELSE IF Arg(cmd, 0) \in Programs
          THEN [state |-> "running", how |-> "none", n |-> 0,
                msg |-> <<>>, files |-> fs2]
          ELSE [state |-> "zombie", how |-> "exit", n |-> 1,
                msg |-> <<>>, files |-> fs2]

\* lines 341-382 in the child for the command cmd with the files fs:
\* how the child goes on, what it prints on the terminal, the files after
ChildResult(cmd, fs) ==
  IF cmd.inputFile # NULL /\ ~CanOpenRead(cmd.inputFile, fs)
  THEN [state |-> "zombie", how |-> "exit", n |-> 1,
        msg |-> <<Msg("no-input", 0, cmd.inputFile)>>, files |-> fs]
  ELSE IF cmd.outputFile # NULL /\ ~CanOpenWrite(cmd.outputFile)
  THEN [state |-> "zombie", how |-> "exit", n |-> 1,
        msg |-> <<Msg("no-output", 0, cmd.outputFile)>>, files |-> fs]
  ELSE LET fs2 == IF cmd.outputFile \in {NULL, DevNull}
                  THEN fs ELSE fs \cup {cmd.outputFile}
       IN IF Arg(cmd, 0) \in Programs
          THEN [state |-> "running", how |-> "none", n |-> 0,
                msg |-> <<>>, files |-> fs2]
          ELSE [state |-> "zombie", how |-> "exit", n |-> 1,
                \* printed to standard output, which is the output file if any
                msg |-> IF cmd.outputFile = NULL
                        THEN <<Msg("not-found", 0, Arg(cmd, 0))>> ELSE <<>>,
                files |-> fs2]

\* the child hands a never-initialised pointer to open and printf
UsesGarbage(cmd, fs) ==
  \/ cmd.inputFile = Garbage
  \/ /\ cmd.inputFile = NULL \/ CanOpenRead(cmd.inputFile, fs)
     /\ cmd.outputFile = Garbage

\* the disposition of SIGINT the child sets, lines 336-339
ChildSigint(c) ==
  IF ~c.cmd.backgroundRun \/ c.mode THEN "default" ELSE "ignore"

\* lines 330-382 in the child p
ChildSetup(p) ==
  /\ child[p].state = "forked"
  /\ \/ LET r == ChildResult(child[p].cmd, files)
        IN /\ child' = [child EXCEPT ![p].state = r.state,
                                     ![p].sigint = ChildSigint(child[p]),
                                     ![p].how = r.how,
                                     ![p].n = r.n]
           /\ out' = out \o r.msg
           /\ files' = r.files
     \/ /\ UsesGarbage(child[p].cmd, files)
        /\ child' = [child EXCEPT ![p].state = "zombie",
                                  ![p].sigint = ChildSigint(child[p]),
                                  ![p].how = "signal",
                                  ![p].n = SIGSEGV]
        /\ UNCHANGED <<out, files>>
  /\ UNCHANGED <<pid, pString, newString, pc, foregroundMode, input, currCommand, fStatus, rStatus,
                 spawnPid, cwd, buf, err,
                 sigCount, turn>>

\* the program the child became ends, by exit or by a signal
ChildEnd(p) ==
  /\ child[p].state = "running"
  /\ \E e \in [how : {"exit"}, n : ExitCodes] \cup [how : {"signal"}, n : KillSignals] :
       child' = [child EXCEPT ![p].state = "zombie", ![p].how = e.how,
                              ![p].n = e.n]
  /\ UNCHANGED <<pid, pString, newString, pc, foregroundMode, input, currCommand, fStatus, rStatus,
                 spawnPid, cwd, files, out, buf, err, sigCount, turn>>

\* lines 44-49: what the interpreter does with SIGINT
ShellSigint == "ignore"

\* SIGINT is delivered to the interpreter (p = 0) or to the child p.  A child
\* between fork and line 339 still has the disposition it inherited
deliver_SIGINT(p) ==
  IF p = 0
  THEN /\ ~Terminated
       /\ pc' = IF ShellSigint = "default" THEN "killed" ELSE pc
       /\ UNCHANGED <<pid, pString, newString, foregroundMode, input, currCommand, fStatus, rStatus,
                      spawnPid, child, cwd, files, out, buf, err, sigCount, turn>>
  ELSE /\ child[p].state = "running"
       /\ child[p].sigint = "default"
       /\ child' = [child EXCEPT ![p].state = "zombie", ![p].how = "signal",
                                 ![p].n = SIGINT]
       /\ UNCHANGED <<pid, pString, newString, pc, foregroundMode, input, currCommand, fStatus,
                      rStatus, spawnPid, cwd, files, out, buf, err, sigCount, turn>>

\* ------------------------------------------------- the parser on any line
Alphabet == {"a", " ", "<", ">", "&"}
Words == {"a", "<", ">", "&"}

RECURSIVE Join(_)
\* the one-character words ws, a space between each two
Join(ws) == IF Len(ws) = 1 THEN ws ELSE <<Head(ws), " ">> \o Join(Tail(ws))

\* every line of at most MaxLineLen characters, and every line of at most
\* MaxWords words
ParserLines ==
  UNION {[1..n -> Alphabet] : n \in 1..MaxLineLen}
  \cup {Join(ws) : ws \in UNION {[1..n -> Words] : n \in 1..MaxWords}}

NoChild ==
  [state |-> "none", cmd |-> EmptyCommand(NULL, NULL), mode |-> FALSE,
   sigint |-> "ignore", how |-> "none", n |-> 0, reapedBy |-> "none"]

InitParse ==
  /\ pc = "parse"
  /\ foregroundMode \in BOOLEAN
  /\ input \in ParserLines
  /\ currCommand = EmptyCommand(NULL, NULL)
  /\ fStatus = 0
  /\ rStatus = 0
  /\ spawnPid = 0
  /\ child = [p \in 1..MaxChildren |-> NoChild]
  /\ cwd = StartDir
  /\ files = StartFiles
  /\ out = <<>>
  /\ buf = <<>>
  /\ err = <<>>
  /\ sigCount = 0
  /\ turn = 1
  /\ pid = ShellPid
  /\ pString = <<>>
  /\ newString = <<>>

NextParse == Parse \/ SynthIn \/ SynthOut \/ handle_SIGTSTP

SpecParse == InitParse /\ [][NextParse]_vars

\* -------------------------------------------------------- the interpreter
\* ------------------------------------------------------- the child alone
\* commands the parser can hand over: a program that exists or not, each
\* file absent, never written, an existing file, a missing file, a new
\* file, a directory or /dev/null
ChildCommands ==
  {c \in [arguments : {0 :> s_ls, 0 :> <<"a">>},
          inputFile : {NULL, Garbage, DevNull, <<"f">>, <<"x">>},
          outputFile : {NULL, Garbage, DevNull, <<"g">>, <<"d">>},
          backgroundRun : BOOLEAN] :
     {c.inputFile, c.outputFile} # {NULL, Garbage}}

\* right after the fork of line 320 for one such command
InitChild ==
  /\ pc = "p_check"
  /\ foregroundMode \in BOOLEAN
  /\ input = <<>>
  /\ currCommand \in ChildCommands
  /\ fStatus = 0
  /\ rStatus = 0
  /\ spawnPid = 1
  /\ child = [p \in 1..MaxChildren |->
                IF p = 1
                THEN [state |-> "forked", cmd |-> currCommand,
                      mode |-> foregroundMode, sigint |-> "ignore",
                      how |-> "none", n |-> 0, reapedBy |-> "none"]
                ELSE NoChild]
  /\ cwd = StartDir
  /\ files = StartFiles
  /\ out = <<>>
  /\ buf = <<>>
  /\ err = <<>>
  /\ sigCount = 0
  /\ turn = 1
  /\ pid = ShellPid
  /\ pString = <<>>
  /\ newString = <<>>

NextChild ==
  \/ \E p \in DOMAIN child : ChildSetup(p)
  \/ \E p \in DOMAIN child : ChildEnd(p)
  \/ \E p \in DOMAIN child : deliver_SIGINT(p)

SpecChild == InitChild /\ [][NextChild]_vars

\* ---------------------------------------------------- the expander alone
\* process IDs of one, two and four digits
Pids == {7, ShellPid, 4096}

\* k copies of w
Repeat(w, k) == [i \in 1..(k * Len(w)) |-> w[((i - 1) % Len(w)) + 1]]

\* the line fgets can deliver (at most USERINPUT - 1 characters) that holds
\* the most markers, with and without a command word in front
FullLines ==
  {Repeat(<<"$", "$">>, (USERINPUT - 1) \div 2),
   <<"a", " ">> \o Repeat(<<"$", "$">>, (USERINPUT - 3) \div 2)}

\* every line of at most MaxExpandLen characters over '$', 'a' and a digit
\* of the process ID, and the full lines
ExpandLines ==
  UNION {[1..n -> {"$", "a", "4"}] : n \in 1..MaxExpandLen} \cup FullLines

InitExpand ==
  /\ pc = "expand"
  /\ foregroundMode = FALSE
  /\ input \in ExpandLines
  /\ currCommand = EmptyCommand(NULL, NULL)
  /\ fStatus = 0
  /\ rStatus = 0
  /\ spawnPid = 0
  /\ child = [p \in 1..MaxChildren |-> NoChild]
  /\ cwd = StartDir
  /\ files = StartFiles
  /\ out = <<>>
  /\ buf = <<>>
  /\ err = <<>>
  /\ sigCount = 0
  /\ turn = 1
  /\ pid \in Pids
  /\ pString = <<>>
  /\ newString = <<>>

NextExpand == Expand \/ variableExpansion

SpecExpand == InitExpand /\ [][NextExpand]_vars

\* ------------------------------------------------------- the whole program
Init ==
  /\ pc = "reap_wait"
  /\ foregroundMode = FALSE
  /\ input = <<>>
  /\ currCommand = EmptyCommand(NULL, NULL)
  /\ fStatus = 0
  /\ rStatus = 0
  /\ spawnPid = 0
  /\ child = [p \in 1..MaxChildren |-> NoChild]
  /\ cwd = StartDir
  /\ files = StartFiles
  /\ out = <<>>
  /\ buf = <<>>
  /\ err = <<>>
  /\ sigCount = 0
  /\ turn = 1
  /\ pid = ShellPid
  /\ pString = <<>>
  /\ newString = <<>>

Next ==
  \/ ReapWait
  \/ Prompt
  \/ ReadLine
  \/ Expand
  \/ variableExpansion
  \/ Parse
  \/ SynthIn
  \/ SynthOut
  \/ BuiltinExit
  \/ BuiltinCd
  \/ BuiltinStatus
  \/ Fork
  \/ ForkFail
  \/ ParentCheckWait
  \/ ParentWait
  \/ ParentCheckBackground
  \/ Return
  \/ handle_SIGTSTP
  \/ \E p \in DOMAIN child : ChildSetup(p)
  \/ \E p \in DOMAIN child : ChildEnd(p)
  \/ \E p \in {0} \cup DOMAIN child : deliver_SIGINT(p)

Spec == Init /\ [][Next]_vars

\* ===================================================================
\* Properties
\* ===================================================================
\* what has been printed to standard output, in program order
AllOut == out \o buf

Occurrences(seq, m) == Cardinality({i \in 1..Len(seq) : seq[i] = m})

\* the executor has waited for the child p
AwaitedByExecutor(p) == p \in DOMAIN child /\ child[p].reapedBy = "executor"

\* C1: when runCommand has finished an external command, the parent has
\* either waited for that child and printed no "background pid is" line, or
\* printed the line once and not waited; never both, never neither.
C1_WaitXorReport ==
  (pc = "ret" /\ spawnPid \in DOMAIN child) =>
    LET printed == Occurrences(AllOut, Msg("bg-pid", spawnPid, NULL))
    IN \/ AwaitedByExecutor(spawnPid) /\ printed = 0
       \/ ~AwaitedByExecutor(spawnPid) /\ printed = 1

\* the message that reports how the child c ended
EndMsg(c) ==
  IF c.how = "exit" THEN Msg("exit-value", c.n, NULL)
  ELSE Msg("term-signal", c.n, NULL)

C2_Reports ==
  \A p \in DOMAIN child :
    LET done == {i \in 1..Len(AllOut) : AllOut[i] = Msg("bg-done", p, NULL)}
    IN /\ Cardinality(done) <= 1
       /\ (child[p].reapedBy = "reaper") <=> (Cardinality(done) = 1)
       /\ AwaitedByExecutor(p) => done = {}
       /\ \A i \in done : /\ i < Len(AllOut)
                          /\ AllOut[i + 1] = EndMsg(child[p])

\* C2: a child that was not awaited by the executor and has terminated before
\* a loop turn begins is reported by checkBackgroundProcesses before that
\* turn's prompt (when the reaper hands over to the prompt no terminated
\* child is left unreported), exactly once in the run, with its own pid and
\* its own exit code or signal; a child the executor awaited is never
\* reported by the reaper.
C2_ReaperReportsOnce ==
  /\ []C2_Reports
  /\ [][(pc = "reap_wait" /\ pc' = "prompt") => Zombies = {}]_vars

\* C2's case: the reaper has reported a background child killed by a signal
\* and the next prompt is out
C2_Witness ==
  /\ pc = "read"
  /\ \E p \in DOMAIN child :
       /\ child[p].reapedBy = "reaper"
       /\ child[p].cmd.backgroundRun
       /\ child[p].how = "signal"
       /\ Occurrences(out, Msg("bg-done", p, NULL)) = 1

IsNotice(m) == m.kind \in {"enter-fg", "exit-fg"}
Notices == SelectSeq(out, IsNotice)

\* C3: starting with the mode off, the deliveries of SIGTSTP switch the mode
\* on and off in turn (two deliveries leave it off), the notices are the
\* enter message and the exit message in turn, and each notice is followed
\* by the prompt marker before the next notice.
C3_ToggleTwice ==
  /\ foregroundMode = (sigCount % 2 = 1)
  /\ Len(Notices) = sigCount
  /\ \A i \in 1..Len(Notices) :
       Notices[i] = IF i % 2 = 1 THEN Msg("enter-fg", 50, NULL)
                    ELSE Msg("exit-fg", 30, NULL)
  /\ \A i \in 1..Len(out) :
       IsNotice(out[i]) =>
         \E j \in (i + 1)..Len(out) :
           /\ out[j].kind = "prompt"
           /\ out[j].n = 3
           /\ \A k \in (i + 1)..(j - 1) : ~IsNotice(out[k])

\* C3's case: two deliveries, the mode is off again
C3_Witness ==
  /\ sigCount = 2
  /\ ~foregroundMode
  /\ Len(Notices) = 2

Awaited == {p \in DOMAIN child : child[p].reapedBy = "executor"}
\* pids are handed out in increasing order and the executor waits for one
\* child at a time: the child awaited last is the one with the largest pid
LastAwaited == CHOOSE p \in Awaited : \A q \in Awaited : q <= p

ExpectedStatus ==
  IF Awaited = {} THEN Msg("exit-value", 0, NULL)
  ELSE EndMsg(child[LastAwaited])

StatusStep ==
  pc = "dispatch" /\ Arg(currCommand, 0) = s_status /\ pc' = "ret"

\* C4: the status built-in prints "exit value N" or "terminated by signal N"
\* for the child the executor awaited last, and "exit value 0" when it has
\* awaited none, whatever happened in between.
C4_StatusReportsLastAwaited ==
  [][StatusStep => AllOut' = Append(AllOut, ExpectedStatus)]_vars

\* C4's case: status has run after a foreground child was killed by a signal
\* and another child was launched after it
C4_Witness ==
  /\ pc = "ret"
  /\ Arg(currCommand, 0) = s_status
  /\ Awaited # {}
  /\ child[LastAwaited].how = "signal"
  /\ \E p \in DOMAIN child : p > LastAwaited /\ child[p].state # "none"
  /\ buf # <<>>
  /\ buf[Len(buf)] = Msg("term-signal", SIGKILL, NULL)

\* C5: runCommand returns the status it was given for cd, for status and for
\* a launch it did not wait for, and main's fStatus changes only when a
\* command whose child the executor awaited returns; the reaper and the
\* signal handler never change it.
C5_StatusFrame ==
  /\ []((pc = "ret" /\ ~AwaitedByExecutor(spawnPid)) => rStatus = fStatus)
  /\ [][fStatus' # fStatus => (pc = "ret" /\ AwaitedByExecutor(spawnPid))]_vars

\* C5's case: a failing cd returns while the status of an earlier child is
\* not 0
C5_Witness ==
  /\ pc = "ret"
  /\ Arg(currCommand, 0) = s_cd
  /\ Arg(currCommand, 1) \notin Dirs \cup {NULL}
  /\ fStatus # 0
  /\ rStatus = fStatus

Running == {p \in DOMAIN child : child[p].state \in {"forked", "running"}}

\* C6: when the interpreter has terminated through exit, no process it
\* launched is still running.
C6_ExitLeavesNoChild == pc = "exit_295" => Running = {}

CdStep == pc = "dispatch" /\ Arg(currCommand, 0) = s_cd /\ pc' = "ret"

\* C7: cd to a path that does not exist reports an error and leaves the
\* working directory unchanged; cd without argument changes to HOME.
C7_CdReportsFailure ==
  [][CdStep =>
       IF Arg(currCommand, 1) = NULL THEN cwd' = Home
       ELSE Arg(currCommand, 1) \notin Dirs =>
              /\ cwd' = cwd
              /\ AllOut' # AllOut \/ err' # err]_vars

\* the child's redirection or program replacement fails
SetupFails(cmd) ==
  /\ Garbage \notin {cmd.inputFile, cmd.outputFile}
  /\ \/ cmd.inputFile # NULL /\ cmd.inputFile \notin files \cup {DevNull}
     \/ cmd.outputFile \in Dirs
     \/ Arg(cmd, 0) \notin Programs

\* C8: a redirection-open failure and a failed program replacement end the
\* child with status 1 and leave the interpreter running, a bad cd leaves it
\* running, and the interpreter terminates only through exit or a fork
\* failure.
C8_OnlyExitTerminates ==
  /\ \A p \in DOMAIN child :
       (child[p].state \in {"zombie", "reaped"} /\ SetupFails(child[p].cmd))
         => (child[p].how = "exit" /\ child[p].n = 1)
  /\ Terminated => pc \in {"exit_295", "exit_325"}

RECURSIVE Ordinary(_, _)
\* the tokens from the k-th on, without '<', '>' and the token after each
Ordinary(toks, k) ==
  IF k > Len(toks) THEN <<>>
  ELSE IF toks[k] \in {<<"<">>, <<">">>} THEN Ordinary(toks, k + 2)
  ELSE <<toks[k]>> \o Ordinary(toks, k + 1)

RECURSIVE Given(_, _, _, _)
\* the token after the last op from the k-th token on, or dflt
Given(toks, k, op, dflt) ==
  IF k > Len(toks) THEN dflt
  ELSE IF toks[k] \in {<<"<">>, <<">">>}
       THEN Given(toks, k + 2, op,
                  IF toks[k] = op /\ k < Len(toks) THEN toks[k + 1] ELSE dflt)
  ELSE Given(toks, k + 1, op, dflt)

Parsed == pc \in {"synth_in", "synth_out", "dispatch"}

\* C9: the argument vector handed to the program is the sequence of the
\* line's tokens in order, without '<', '>' and the token after each.
C9_ArgvIsOrdinaryTokens ==
  Parsed =>
    LET toks == Tokens(StripAmp(input))
    IN Argv(currCommand) = <<toks[1]>> \o Ordinary(toks, 2)

Synthesized(file, given, bg) ==
  IF given # NULL THEN file = given
  ELSE IF bg THEN file = (IF foregroundMode THEN NULL ELSE DevNull)
  ELSE file # DevNull

\* C10: with the mode constant during parsing, a line ending in '&' gets
\* /dev/null for each file not given when the mode is off and keeps it absent
\* when the mode is on, a given file is never replaced, and a line without
\* '&' never gets a synthesized file.
C10_NullDeviceSynthesis ==
  (pc = "dispatch" /\ sigCount = 0) =>
    LET toks == Tokens(StripAmp(input))
    IN /\ Synthesized(currCommand.inputFile, Given(toks, 2, <<"<">>, NULL),
                      EndsInAmp(input))
       /\ Synthesized(currCommand.outputFile, Given(toks, 2, <<">">>, NULL),
                      EndsInAmp(input))

\* the last token of the line as it was typed
LastToken(line) == Tokens(line)[Len(Tokens(line))]

\* C11: backgroundRun is set only for a line whose last token is the single
\* character '&'; a line whose last token merely ends in '&' does not set it
\* and hands that token on as it was typed.
C11_StandaloneAmpersand ==
  Parsed =>
    LET last == LastToken(input)
    IN /\ currCommand.backgroundRun => last = <<"&">>
       /\ (last # <<"&">> /\ last[Len(last)] = "&") =>
            /\ ~currCommand.backgroundRun
            /\ \/ \E i \in DOMAIN currCommand.arguments :
                    currCommand.arguments[i] = last
               \/ last \in {currCommand.inputFile, currCommand.outputFile}

\* C12: processCommand never hands a missing token to strdup or strlen:
\* every line that reaches it either yields a Command with a non-empty
\* arguments[0] or leaves the interpreter running.
C12_NoMissingTokenDereference ==
  /\ pc # "fault"
  /\ Parsed => Arg(currCommand, 0) \notin {NULL, <<>>}

\* the line has an ordinary token before its final '&' and no '<' or '>'
PlainBackgroundLine(line) ==
  /\ EndsInAmp(line)
  /\ Tokens(StripAmp(line)) # <<>>
  /\ \A k \in 1..Len(Tokens(StripAmp(line))) :
       Tokens(StripAmp(line))[k] \notin {<<"<">>, <<">">>}

\* C18: for a line ending in '&' without '<' and '>', processCommand returns
\* either both files synthesized as /dev/null or neither, wherever the
\* toggle signal falls within it.
C18_SynthesisIsAtomic ==
  (pc = "dispatch" /\ PlainBackgroundLine(input)) =>
    (currCommand.inputFile = DevNull <=> currCommand.outputFile = DevNull)

\* the '$' at position i of line s opens a marker: in its run of '$' an even
\* number of them precede it, and one more follows
MarkerAt(s, i) ==
  /\ i >= 1
  /\ i < Len(s)
  /\ s[i] = "$"
  /\ s[i + 1] = "$"
  /\ LET before == {j \in 1..(i - 1) : s[j] # "$"}
         first == IF before = {} THEN 1
                  ELSE 1 + CHOOSE j \in before : \A k \in before : k <= j
     IN (i - first) % 2 = 0

RECURSIVE Replaced(_, _, _, _)
\* positions lo..hi of line s with each marker replaced by the text d
Replaced(s, d, lo, hi) ==
  IF lo > hi THEN <<>>
  ELSE IF lo = hi
       THEN (IF MarkerAt(s, lo) THEN d
             ELSE IF MarkerAt(s, lo - 1) THEN <<>> ELSE <<s[lo]>>)
       ELSE Replaced(s, d, lo, (lo + hi) \div 2)
            \o Replaced(s, d, ((lo + hi) \div 2) + 1, hi)

Expanding == pc \in {"expand", "expand_loop"}

\* C13: variableExpansion carries every line through: each of its markers,
\* taken left to right without overlap, becomes the decimal text of the
\* process ID, every other character stays in place, and no marker is left.
C13_EveryMarkerReplaced ==
  [][Expanding =>
       /\ pc' # "fault"
       /\ pc' = "parse" =>
            /\ input' = Replaced(input, Decimal(pid), 1, Len(input))
            /\ strstr(input', <<"$", "$">>) = 0]_vars

\* C20: the expansion of a line of at most USERINPUT - 1 characters has at
\* most USERINPUT - 1 characters, and variableExpansion writes no byte past
\* the USERINPUT bytes of newString and of input.
C20_ExpansionFitsBuffer ==
  /\ Len(input) <= USERINPUT - 1
  /\ Len(newString) <= USERINPUT
  /\ pc # "fault"

\* the parent has taken the decision of line 386 for the child p
Decided(p) ==
  /\ child[p].state # "none"
  /\ ~(p = spawnPid /\ pc = "p_check")

\* the parent blocks, or has blocked, in the waitpid of line 387 on child p
BlockedOn(p) == (p = spawnPid /\ pc = "p_wait") \/ AwaitedByExecutor(p)

KilledBySigint(p) == child[p].how = "signal" /\ child[p].n = SIGINT

\* C14: SIGINT never ends the interpreter, and it never ends a child that the
\* interpreter launched as a background command: every child it ends is one
\* the executor blocks on.
C14_SigintOnlyEndsForeground ==
  /\ pc # "killed"
  /\ \A p \in DOMAIN child :
       (Decided(p) /\ KilledBySigint(p)) => BlockedOn(p)

\* the child p has run its lines 330-339
SetUp(p) == child[p].state \in {"running", "zombie", "reaped"}

\* C15: child and parent classify a spawned command alike: a child the parent
\* blocks on has the default disposition of SIGINT, a child the parent does
\* not wait for ignores SIGINT.
C15_SameClassification ==
  \A p \in DOMAIN child :
    (Decided(p) /\ SetUp(p)) => (BlockedOn(p) <=> child[p].sigint = "default")

\* C16: the interpreter leaves the waitpid of line 387 only when the child
\* it waits for has ended, whatever signals its handler served meanwhile,
\* and the status runCommand then returns is the termination status of that
\* child.
C16_WaitOutlastsSignals ==
  /\ [][(pc = "p_wait" /\ pc' # "p_wait") =>
          /\ child[spawnPid].state = "zombie"
          /\ child'[spawnPid].state = "reaped"
          /\ rStatus' = WaitStatus(child[spawnPid])]_vars
  /\ [][(pc = "ret" /\ pc' # "ret" /\ AwaitedByExecutor(spawnPid)) =>
          fStatus' = WaitStatus(child[spawnPid])]_vars

\* C16's case: the wait has returned after the toggle signal was served
\* during it.  The mode was on at line 386 (the command has '&' and was
\* waited for) and is off now, and the notice of the handler precedes the
\* message that line 390 printed when the wait returned.
C16_Witness ==
  /\ pc = "p_check2"
  /\ AwaitedByExecutor(spawnPid)
  /\ currCommand.backgroundRun
  /\ ~foregroundMode
  /\ sigCount = MaxSig
  /\ rStatus = W_TERMSIG(SIGKILL)
  /\ out # <<>>
  /\ out[Len(out)] = Msg("fg-term-signal", SIGKILL, NULL)

\* the file is one that the line named or line 271 or 276 supplied
Named(file) == file \notin {NULL, Garbage}

\* the child p runs its lines 330-382 in this step
SetupStep(p) == child[p].state = "forked" /\ child'[p].state # "forked"

ExitedWith1(c) == c.state = "zombie" /\ c.how = "exit" /\ c.n = 1

C19_ParseTimeRedirectionKept ==
  pc = "p_wait" => child[spawnPid].cmd = currCommand

\* C19's case: the executor blocks on the running child of a '&' command
\* whose two files are the /dev/null that lines 271 and 276 supply with the
\* mode off; the mode was on at line 386
C19_Witness ==
  /\ pc = "p_wait"
  /\ currCommand.backgroundRun
  /\ foregroundMode
  /\ child[spawnPid].state = "running"
  /\ child[spawnPid].cmd.inputFile = DevNull
  /\ child[spawnPid].cmd.outputFile = DevNull
  /\ \A k \in 1..Len(Tokens(input)) : Tokens(input)[k] # DevNull

====
